---- MODULE Spec2Model ----
(***************************************************************************)
(* Model of the newsletter mail bot: the processed-state ledger            *)
(* (processed.json), MailBot.unsubscribe and MailBot.scan_all of           *)
(* mailbot.py, and the background jobs of app.py with their guard flags    *)
(* and the shared global MailBot.                                          *)
(*                                                                         *)
(* External collaborators (the HTTP fetch, the page parser's findings, the *)
(* headless browser, the IMAP session, the file system) are inputs: each   *)
(* action draws their answers from the small sets defined below.           *)
(***************************************************************************)
EXTENDS Naturals, Sequences, FiniteSets, TLC

VARIABLES
    file,                  \* contents of PROCESSED_FILE (the persisted ledger)
    heap,                  \* the MailBot objects: heap[b].processed, heap[b].connection
    bot,                   \* app.py's global `bot`: a reference into heap, 0 is None
    PLAYWRIGHT_AVAILABLE,  \* mailbot.py's module constant, fixed at import
    input,                 \* direct calls of MailBot.unsubscribe: the arguments and
                           \* what the collaborators answer on each link
    call,                  \* direct calls of MailBot.unsubscribe: one entry per call
                           \* made, with the ledger before it and what it did
    mailbox,               \* the IMAP account: the messages of each folder in
                           \* message-number order, and the answer to select
    scanned,               \* direct calls of MailBot.scan_all: what was returned
    scan_status,           \* app.py's global scan_status
    unsubscribe_status,    \* app.py's global unsubscribe_status
    scanJob,               \* the do_scan threads: where each one is
    unsubJob,              \* the do_unsubscribe threads: where each one is, its
                           \* newsletters_to_unsubscribe, its place in the loop
    requests               \* how many requests the application has served

vars == <<file, heap, bot, PLAYWRIGHT_AVAILABLE, input, call, mailbox, scanned,
          scan_status, unsubscribe_status, scanJob, unsubJob, requests>>

\* the state of the web application, which direct calls leave alone
appVars == <<scan_status, unsubscribe_status, scanJob, unsubJob, requests>>

----------------------------------------------------------------------------
(* Helpers *)

Range(s) == {s[i] : i \in 1..Len(s)}

NoDuplicates(s) == \A i, j \in 1..Len(s) : s[i] = s[j] => i = j

SeqsUpTo(S, n) == UNION {[1..k -> S] : k \in 0..n}

----------------------------------------------------------------------------
(* The ledger: load_processed / save_processed *)

\* what load_processed returns when the file does not exist
EmptyLedger == [processed_ids |-> <<>>, unsubscribed |-> <<>>]

\* the return value of load_processed: the file's contents
load_processed == file

----------------------------------------------------------------------------
(* MailBot.unsubscribe: one link attempt *)

\* the "already unsubscribed" phrases of unsubscribe()
success_indicators ==
    { "erfolgreich abgemeldet", "successfully unsubscribed",
      "have been unsubscribed", "wurden abgemeldet",
      "you are now unsubscribed", "abmeldung erfolgreich",
      "subscription cancelled", "removed from", "opted out" }

\* str.lower() on the text fragments that occur in the modelled pages
Lower(s) ==
    CASE s = "Successfully Unsubscribed" -> "successfully unsubscribed"
      [] s = "Wurden Abgemeldet" -> "wurden abgemeldet"
      [] s = "Please Confirm" -> "please confirm"
      [] s = "Unsubscribe" -> "unsubscribe"
      [] s = "Abmelden" -> "abmelden"
      [] s = "Home" -> "home"
      [] s = "Sender@Example.com" -> "sender@example.com"
      [] s = "Other@X.test" -> "other@x.test"
      [] OTHER -> s

\* the words of the confirm_links pattern, matched with re.I
ConfirmWords == {"confirm", "unsubscribe", "abmelden", "bestätigen", "yes"}

\* A fetched page, as response.text and the parser see it: its text fragments,
\* the number of <form> elements, the <button>/<input> elements with their
\* type attribute, and the texts of its anchors.
NoPage == [text |-> <<>>, forms |-> 0, controls |-> <<>>, anchors |-> <<>>]

Pages ==
    { [text |-> <<"Successfully Unsubscribed">>, forms |-> 1,
       controls |-> <<[tag |-> "input", type |-> "submit"]>>, anchors |-> <<>>],
      [text |-> <<"you are", "opted out">>, forms |-> 0,
       controls |-> <<>>, anchors |-> <<"Home">>],
      [text |-> <<"goodbye">>, forms |-> 0,
       controls |-> <<[tag |-> "input", type |-> "text"]>>, anchors |-> <<"Home">>],
      [text |-> <<"Please Confirm">>, forms |-> 1,
       controls |-> <<>>, anchors |-> <<>>],
      [text |-> <<"one more step">>, forms |-> 0,
       controls |-> <<[tag |-> "button", type |-> "button"]>>, anchors |-> <<>>],
      [text |-> <<"one more step">>, forms |-> 0,
       controls |-> <<>>, anchors |-> <<"Home", "Abmelden">>] }

\* any(ind in page_text for ind in success_indicators), page_text lowercased
already_unsubscribed(page) ==
    \E i \in 1..Len(page.text) : Lower(page.text[i]) \in success_indicators

\* bool(forms or confirm_buttons or confirm_links)
needs_confirmation(page) ==
    \/ page.forms > 0
    \/ \E i \in 1..Len(page.controls) :
          /\ page.controls[i].tag \in {"button", "input"}
          /\ page.controls[i].type \in {"submit", "button"}
    \/ \E i \in 1..Len(page.anchors) : Lower(page.anchors[i]) \in ConfirmWords

\* What the headless browser meets on the page: launching or loading raises,
\* the rendered page shows a success indicator, a matching control can be
\* clicked, nothing can be clicked.
Browsers == {"raises", "indicator", "clicked", "nothing"}

\* _auto_confirm_unsubscribe(url): the pair (success, message)
AutoConfirmUnsubscribe(available, browser) ==
    IF ~available
    THEN [success |-> FALSE, message |-> <<"Playwright nicht installiert">>]
    ELSE IF browser = "raises"
    THEN [success |-> FALSE, message |-> <<"Browser-Fehler: ", "launch failed">>]
    ELSE IF browser = "indicator"
    THEN [success |-> TRUE,
          message |-> <<"Bereits abgemeldet (Erfolgsmeldung gefunden)">>]
    ELSE IF browser = "clicked"
    THEN [success |-> TRUE,
          message |-> <<"Bestätigung geklickt - wahrscheinlich abgemeldet">>]
    ELSE [success |-> FALSE, message |-> <<"Kein Bestätigungsbutton gefunden">>]

\* str(response.status_code) in the f-string "HTTP {response.status_code}"
StatusText(code) ==
    IF code = 404 THEN "404" ELSE IF code = 500 THEN "500" ELSE "200"

\* has_affordance: the page shows something a browser could click or submit
Clickable(page) == page.forms > 0 \/ Len(page.controls) > 0 \/ Len(page.anchors) > 0

\* What a browser can meet on a page: it can always fail, and the page it
\* renders (scripts run, a second GET) can show a success indicator the fetched
\* text did not have; it clicks only what is there.
BrowsersOn(page) ==
    { b \in Browsers :
        \/ b = "raises"
        \/ b = "indicator"
        \/ b = "clicked" /\ ~already_unsubscribed(page) /\ Clickable(page)
        \/ b = "nothing" /\ ~already_unsubscribed(page) }

\* The answers of the collaborators to one link: requests.get times out, raises
\* something else (text is str(e)), or returns a response with a status code
\* and a page; browser is what the automation would meet on that link.
LinkEnvs ==
    { [fetch |-> "timeout", text |-> "Read timed out", code |-> 0, page |-> NoPage,
       browser |-> "nothing"],
      [fetch |-> "raises", text |-> "Connection refused", code |-> 0,
       page |-> NoPage, browser |-> "nothing"],
      [fetch |-> "response", text |-> "", code |-> 404, page |-> NoPage,
       browser |-> "nothing"] }
    \cup
    { e \in [fetch : {"response"}, text : {""}, code : {200}, page : Pages,
             browser : Browsers] : e.browser \in BrowsersOn(e.page) }

Result(link, status, message) ==
    [link |-> link, status |-> status, message |-> message]

\* the automation called on every page that needs confirmation, asked for or
\* not
ResponseAttemptAutoAlways(link, env, auto_confirm, available) ==
    IF env.code # 200
    THEN [result |-> Result(link, "error", <<"HTTP ", StatusText(env.code)>>),
          auto |-> FALSE]
    ELSE IF already_unsubscribed(env.page)
    THEN [result |-> Result(link, "success", <<"Erfolgreich abgemeldet">>),
          auto |-> FALSE]
    ELSE IF needs_confirmation(env.page)
    THEN LET r == AutoConfirmUnsubscribe(available, env.browser)
         IN  IF r.success
             THEN [result |-> Result(link, "success", r.message), auto |-> TRUE]
             ELSE [result |-> Result(link, "needs_confirmation",
                      <<"Automatische Bestätigung fehlgeschlagen: ">> \o r.message),
                   auto |-> TRUE]
    ELSE [result |-> Result(link, "success", <<"Erfolgreich abgemeldet">>),
          auto |-> FALSE]

\* the forms and buttons looked for before the success phrases
ResponseAttemptConfirmFirst(link, env, auto_confirm, available) ==
    IF env.code # 200
    THEN [result |-> Result(link, "error", <<"HTTP ", StatusText(env.code)>>),
          auto |-> FALSE]
    ELSE IF needs_confirmation(env.page) /\ auto_confirm
    THEN LET r == AutoConfirmUnsubscribe(available, env.browser)
         IN  IF r.success
             THEN [result |-> Result(link, "success", r.message), auto |-> TRUE]
             ELSE [result |-> Result(link, "needs_confirmation",
                      <<"Automatische Bestätigung fehlgeschlagen: ">> \o r.message),
                   auto |-> TRUE]
    ELSE IF needs_confirmation(env.page)
    THEN [result |-> Result(link, "needs_confirmation",
             <<"Manuelle Bestätigung auf der Website erforderlich">>),
          auto |-> FALSE]
    ELSE [result |-> Result(link, "success", <<"Erfolgreich abgemeldet">>),
          auto |-> FALSE]

\* a failed automation reported as an error of the link
ResponseAttemptAutoError(link, env, auto_confirm, available) ==
    IF env.code # 200
    THEN [result |-> Result(link, "error", <<"HTTP ", StatusText(env.code)>>),
          auto |-> FALSE]
    ELSE IF already_unsubscribed(env.page)
    THEN [result |-> Result(link, "success", <<"Erfolgreich abgemeldet">>),
          auto |-> FALSE]
    ELSE IF needs_confirmation(env.page) /\ auto_confirm
    THEN LET r == AutoConfirmUnsubscribe(available, env.browser)
         IN  IF r.success
             THEN [result |-> Result(link, "success", r.message), auto |-> TRUE]
             ELSE [result |-> Result(link, "error", r.message), auto |-> TRUE]
    ELSE IF needs_confirmation(env.page)
    THEN [result |-> Result(link, "needs_confirmation",
             <<"Manuelle Bestätigung auf der Website erforderlich">>),
          auto |-> FALSE]
    ELSE [result |-> Result(link, "success", <<"Erfolgreich abgemeldet">>),
          auto |-> FALSE]

\* lines 418-487: what is appended for a link whose fetch returned a response,
\* and whether _auto_confirm_unsubscribe was called (auto)
ResponseAttempt(link, env, auto_confirm, available) ==
    IF env.code # 200
    THEN [result |-> Result(link, "error", <<"HTTP ", StatusText(env.code)>>),
          auto |-> FALSE]
    ELSE IF already_unsubscribed(env.page)
    THEN [result |-> Result(link, "success", <<"Erfolgreich abgemeldet">>),
          auto |-> FALSE]
    ELSE IF needs_confirmation(env.page) /\ auto_confirm
    THEN LET r == AutoConfirmUnsubscribe(available, env.browser)
         IN  IF r.success
             THEN [result |-> Result(link, "success", r.message), auto |-> TRUE]
             ELSE [result |-> Result(link, "needs_confirmation",
                      <<"Automatische Bestätigung fehlgeschlagen: ">> \o r.message),
                   auto |-> TRUE]
    ELSE IF needs_confirmation(env.page)
    THEN [result |-> Result(link, "needs_confirmation",
             <<"Manuelle Bestätigung auf der Website erforderlich">>),
          auto |-> FALSE]
    ELSE [result |-> Result(link, "success", <<"Erfolgreich abgemeldet">>),
          auto |-> FALSE]

\* a timeout caught by the generic handler, which reports str(e)
LinkAttemptGeneric(link, env, auto_confirm, available) ==
    IF env.fetch \in {"timeout", "raises"}
    THEN [result |-> Result(link, "error", <<env.text>>), auto |-> FALSE]
    ELSE ResponseAttempt(link, env, auto_confirm, available)

\* The body of the loop over http_links for one link (lines 407-500): the
\* try block with its two handlers.
LinkAttempt(link, env, auto_confirm, available) ==
    IF env.fetch = "timeout"
    THEN [result |-> Result(link, "error", <<"Zeitüberschreitung">>), auto |-> FALSE]
    ELSE IF env.fetch = "raises"
    THEN [result |-> Result(link, "error", <<env.text>>), auto |-> FALSE]
    ELSE ResponseAttempt(link, env, auto_confirm, available)

\* The loop `for link in http_links` from link number i on: one attempt per
\* link, appended in order.
RECURSIVE AttemptsFrom(_, _, _, _, _)
AttemptsFrom(i, links, envs, auto_confirm, available) ==
    IF i > Len(links)
    THEN <<>>
    ELSE <<LinkAttempt(links[i], envs[i], auto_confirm, available)>>
         \o AttemptsFrom(i + 1, links, envs, auto_confirm, available)

\* the loop left at the first link whose attempt ends in an error
RECURSIVE AttemptsUntilError(_, _, _, _, _)
AttemptsUntilError(i, links, envs, auto_confirm, available) ==
    IF i > Len(links)
    THEN <<>>
    ELSE LET a == LinkAttempt(links[i], envs[i], auto_confirm, available)
         IN  IF a.result.status = "error"
             THEN <<a>>
             ELSE <<a>> \o AttemptsUntilError(i + 1, links, envs, auto_confirm,
                                              available)

UnsubscribeAttemptsUntilError(newsletter, envs, auto_confirm, available) ==
    AttemptsUntilError(1, newsletter.unsubscribe_links.http, envs, auto_confirm,
                       available)

\* the mailto links attempted after the web links: requests.get has no
\* adapter for the scheme and raises
UnsubscribeAttemptsAllLinks(newsletter, envs, auto_confirm, available) ==
    AttemptsFrom(1, newsletter.unsubscribe_links.http, envs, auto_confirm, available)
    \o [i \in 1..Len(newsletter.unsubscribe_links.mailto) |->
          [result |-> Result(newsletter.unsubscribe_links.mailto[i], "error",
                             <<"No connection adapters were found">>),
           auto |-> FALSE]]

\* lines 402-500: http_links is taken from the newsletter's "http" bucket, the
\* "mailto" bucket is not read
UnsubscribeAttempts(newsletter, envs, auto_confirm, available) ==
    AttemptsFrom(1, newsletter.unsubscribe_links.http, envs, auto_confirm, available)

ResultsOf(attempts) == [i \in 1..Len(attempts) |-> attempts[i].result]

\* any(r["status"] == "success" for r in results)
AnySuccess(results) == \E i \in 1..Len(results) : results[i].status = "success"

\* the id marked processed only when no link succeeded
MarkProcessedOnFailure(processed, id, results) ==
    LET ids == IF ~AnySuccess(results) /\ id \notin Range(processed.processed_ids)
               THEN Append(processed.processed_ids, id)
               ELSE processed.processed_ids
        uns == IF AnySuccess(results) /\ id \notin Range(processed.unsubscribed)
               THEN Append(processed.unsubscribed, id)
               ELSE processed.unsubscribed
    IN  [processed_ids |-> ids, unsubscribed |-> uns]

\* the id marked unsubscribed whenever any link was attempted
MarkProcessedAttempted(processed, id, results) ==
    LET ids == IF id \notin Range(processed.processed_ids)
               THEN Append(processed.processed_ids, id)
               ELSE processed.processed_ids
        uns == IF Len(results) > 0 /\ id \notin Range(processed.unsubscribed)
               THEN Append(processed.unsubscribed, id)
               ELSE processed.unsubscribed
    IN  [processed_ids |-> ids, unsubscribed |-> uns]

\* the id appended without looking whether the list has it
MarkProcessedAppend(processed, id, results) ==
    [processed_ids |-> Append(processed.processed_ids, id),
     unsubscribed |-> IF AnySuccess(results)
                      THEN Append(processed.unsubscribed, id)
                      ELSE processed.unsubscribed]

\* lines 502-509: mark the id processed, and unsubscribed when a link succeeded
MarkProcessed(processed, id, results) ==
    LET ids == IF id \notin Range(processed.processed_ids)
               THEN Append(processed.processed_ids, id)
               ELSE processed.processed_ids
        uns == IF AnySuccess(results) /\ id \notin Range(processed.unsubscribed)
               THEN Append(processed.unsubscribed, id)
               ELSE processed.unsubscribed
    IN  [processed_ids |-> ids, unsubscribed |-> uns]

----------------------------------------------------------------------------
(* The message classifier and the folder scanner *)

\* The From headers in play, as the pieces the regular expression of
\* extract_email_address sees: a bracketed address after a display name, or a
\* bare address with blanks around it.
FromHeaders ==
    { <<"Shop ", "<", "Sender@Example.com", ">">>,
      <<"sender@example.com">>,
      <<" ", "Other@X.test", " ">> }

\* extract_email_address: the text between the first "<" and the next ">", or
\* the header stripped of its blanks
extract_email_address(from_header) ==
    IF \E i \in 1..Len(from_header) :
          from_header[i] = "<" /\ i + 2 <= Len(from_header) /\ from_header[i + 2] = ">"
    THEN LET i == CHOOSE i \in 1..Len(from_header) :
                    /\ from_header[i] = "<" /\ i + 2 <= Len(from_header)
                    /\ from_header[i + 2] = ">"
                    /\ \A j \in 1..(i - 1) : from_header[j] # "<"
         IN  from_header[i + 1]
    ELSE LET kept == SelectSeq(from_header, LAMBDA t : t # " ")
         IN  IF Len(kept) = 0 THEN "" ELSE kept[1]

\* the scheme a URI of a List-Unsubscribe header starts with
Scheme(uri) ==
    IF uri \in {"https://x.test/u1", "https://x.test/u3"} THEN "https"
    ELSE IF uri = "http://x.test/u2" THEN "http"
    ELSE IF uri \in {"mailto:leave@x.test"} THEN "mailto"
    ELSE "other"

\* _extract_unsubscribe_links: the bracketed URIs of the header value, in
\* header order, in two buckets by scheme; anything else is dropped
extract_unsubscribe_links(header_value) ==
    [http |-> SelectSeq(header_value, LAMBDA u : Scheme(u) \in {"http", "https"}),
     mailto |-> SelectSeq(header_value, LAMBDA u : Scheme(u) = "mailto")]

\* hashlib.md5(...).hexdigest() of the Message-ID values in play
MD5(text) ==
    IF text = "<m1@x.test>" THEN "a"
    ELSE IF text = "<m2@x.test>" THEN "b"
    ELSE "c"

\* generate_message_id: the digest of the Message-ID, or of From, Date and
\* Subject when there is none
generate_message_id(msg) ==
    IF msg.message_id # "" THEN MD5(msg.message_id) ELSE MD5("from-date-subject")

\* A message as its headers: list_unsubscribe is the header's URIs (present
\* says whether the header is there at all; a header that is there with no
\* text is falsy), fetch says whether fetching the headers works.
Message(mid, from_header, present, uris, fetch) ==
    [message_id |-> mid, from |-> from_header, present |-> present,
     list_unsubscribe |-> uris, fetch |-> fetch]

Messages ==
    { Message("<m1@x.test>", <<"Shop ", "<", "Sender@Example.com", ">">>, TRUE,
              <<"https://x.test/u1", "mailto:leave@x.test">>, "OK"),
      Message("<m2@x.test>", <<"sender@example.com">>, TRUE,
              <<"http://x.test/u2", "https://x.test/u3">>, "OK"),
      Message("", <<" ", "Other@X.test", " ">>, TRUE, <<"ftp://x.test/u">>, "OK"),
      Message("<m2@x.test>", <<"sender@example.com">>, FALSE, <<>>, "OK"),
      Message("<m1@x.test>", <<" ", "Other@X.test", " ">>, TRUE,
              <<"https://x.test/u1">>, "raises") }

\* a folder of the account: its messages, oldest first, and the answer to select
Folder(messages, select) == [messages |-> messages, select |-> select]

\* an account with two empty folders
NoMailbox == [INBOX |-> Folder(<<>>, "OK"), Junk |-> Folder(<<>>, "OK")]

\* a message taken for a newsletter only when a link can be extracted
IsNewsletterWithLinks(msg) ==
    /\ msg.present
    /\ \E i \in 1..Len(msg.list_unsubscribe) :
          Scheme(msg.list_unsubscribe[i]) \in {"http", "https", "mailto"}

\* line 202, `if list_unsubscribe:`: the header is there and is not empty
IsNewsletter(msg) == msg.present /\ Len(msg.list_unsubscribe) > 0

\* lines 203-223: the record built for a newsletter message
NewsletterRecord(self, msg, folder_name) ==
    LET msg_id == generate_message_id(msg)
    IN  [id |-> msg_id,
         message_id |-> msg.message_id,
         from |-> msg.from,
         from_email |-> extract_email_address(msg.from),
         folder |-> folder_name,
         unsubscribe_links |-> extract_unsubscribe_links(msg.list_unsubscribe),
         processed |-> msg_id \in Range(self.processed.processed_ids),
         unsubscribed |-> msg_id \in Range(self.processed.unsubscribed)]

\* message_ids[::-1]
Reverse(s) == [i \in 1..Len(s) |-> s[Len(s) + 1 - i]]

\* message_ids[:limit], after `if limit:`; limit.given is false for None
Limited(s, limit) ==
    IF limit.given /\ limit.n # 0 /\ limit.n < Len(s) THEN SubSeq(s, 1, limit.n) ELSE s

\* lines 191-226: the loop over the messages, a message whose fetch raises is
\* skipped
RECURSIVE RecordsFrom(_, _, _, _)
RecordsFrom(i, self, msgs, folder_name) ==
    IF i > Len(msgs)
    THEN <<>>
    ELSE (IF msgs[i].fetch = "OK" /\ IsNewsletter(msgs[i])
          THEN <<NewsletterRecord(self, msgs[i], folder_name)>>
          ELSE <<>>)
         \o RecordsFrom(i + 1, self, msgs, folder_name)

\* MailBot.scan_folder: nothing when there is no usable connection (the call
\* on it raises and is caught at line 228) or the select is not OK
scan_folder(self, box, folder_name, limit) ==
    IF self.connection # "connected" \/ box[folder_name].select # "OK"
    THEN <<>>
    ELSE RecordsFrom(1, self, Limited(Reverse(box[folder_name].messages), limit),
                     folder_name)

\* lines 384-391: the first record of each lowercased sender is kept
RECURSIVE Deduplicate(_, _, _)
Deduplicate(i, all_newsletters, seen_senders) ==
    IF i > Len(all_newsletters)
    THEN <<>>
    ELSE LET sender == Lower(all_newsletters[i].from_email)
         IN  IF sender \notin seen_senders
             THEN <<all_newsletters[i]>>
                  \o Deduplicate(i + 1, all_newsletters, seen_senders \cup {sender})
             ELSE Deduplicate(i + 1, all_newsletters, seen_senders)

\* the senders compared as they are written
RECURSIVE DeduplicateCased(_, _, _)
DeduplicateCased(i, all_newsletters, seen_senders) ==
    IF i > Len(all_newsletters)
    THEN <<>>
    ELSE LET sender == all_newsletters[i].from_email
         IN  IF sender \notin seen_senders
             THEN <<all_newsletters[i]>>
                  \o DeduplicateCased(i + 1, all_newsletters, seen_senders \cup {sender})
             ELSE DeduplicateCased(i + 1, all_newsletters, seen_senders)

\* the loop over the folders left at the first folder that cannot be selected
AllNewslettersUntilBadFolder(self, box, limit_per_folder) ==
    IF box["INBOX"].select # "OK"
    THEN <<>>
    ELSE scan_folder(self, box, "INBOX", limit_per_folder)
         \o scan_folder(self, box, "Junk", limit_per_folder)

\* lines 374-381: the folders scanned, in this order, and their records
\* concatenated
AllNewsletters(self, box, limit_per_folder) ==
    scan_folder(self, box, "INBOX", limit_per_folder)
    \o scan_folder(self, box, "Junk", limit_per_folder)

scan_all_cased(self, box, limit_per_folder) ==
    DeduplicateCased(1, AllNewsletters(self, box, limit_per_folder), {})

\* MailBot.scan_all
scan_all(self, box, limit_per_folder) ==
    Deduplicate(1, AllNewsletters(self, box, limit_per_folder), {})

----------------------------------------------------------------------------
(* MailBot objects *)

\* an unused slot of the heap
NoBot == [processed |-> EmptyLedger, connection |-> "none"]

\* MailBot.__init__: the ledger is loaded from the file, no connection yet
NewMailBot == [processed |-> load_processed, connection |-> "none"]

----------------------------------------------------------------------------
(* app.py: the status globals and the job threads *)

\* how many requests are served (status polls, which change nothing, aside)
MaxRequests == 3

\* the do_scan threads that can be alive at once
ScanThreads == 1..2

\* the do_unsubscribe threads that can be alive at once
UnsubThreads == 1..2

\* A MailBot is referenced by the global bot and, during a call of
\* unsubscribe, by the thread that made it: one more object than threads.
BotIds == 1..(Cardinality(UnsubThreads) + 1)

\* a status message and the number formatted into it
Message_(text, count) == [text |-> text, count |-> count]

\* lines 9-14
ScanStatusAtStart ==
    [scanning |-> FALSE, progress |-> 0, message |-> Message_("", 0),
     newsletters |-> <<>>]

\* lines 15-20
UnsubscribeStatusAtStart ==
    [running |-> FALSE, current |-> 0, total |-> 0, results |-> <<>>]

\* a thread that does not exist
IdleScanJob == [pc |-> "idle"]

IdleUnsubJob ==
    [pc |-> "idle", newsletters |-> <<>>, i |-> 0, self |-> 0, attempts |-> <<>>]

AppAtStart ==
    /\ scan_status = ScanStatusAtStart
    /\ unsubscribe_status = UnsubscribeStatusAtStart
    /\ scanJob = [t \in ScanThreads |-> IdleScanJob]
    /\ unsubJob = [t \in UnsubThreads |-> IdleUnsubJob]
    /\ requests = 0

\* the MailBots still referenced: the rest of the heap is garbage
Referenced(global, jobs) == {global} \cup {jobs[t].self : t \in UnsubThreads}

Collect(h, refs) == [b \in BotIds |-> IF b \in refs THEN h[b] ELSE NoBot]

\* `bot = MailBot()`: a new object, loaded from the file, replaces the global's
NewBotId(jobs) ==
    CHOOSE b \in BotIds :
        /\ b \notin Referenced(0, jobs)
        /\ \A c \in BotIds : c \notin Referenced(0, jobs) => b <= c

\* the last link that needs confirmation reported, not the first
AggregateLast(results) ==
    IF Len(results) = 0
    THEN [status |-> "error", message |-> <<"Keine Abmelde-Links gefunden">>]
    ELSE IF \E i \in 1..Len(results) : results[i].status = "success"
    THEN [status |-> "success", message |-> <<"Erfolgreich abgemeldet">>]
    ELSE IF \E i \in 1..Len(results) : results[i].status = "needs_confirmation"
    THEN LET last == CHOOSE i \in 1..Len(results) :
                        /\ results[i].status = "needs_confirmation"
                        /\ \A j \in (i + 1)..Len(results) :
                              results[j].status # "needs_confirmation"
         IN  [status |-> "needs_confirmation",
              message |-> <<"Manuelle Bestätigung erforderlich", " - ",
                            results[last].link>>]
    ELSE [status |-> "error", message |-> results[1].message]

\* lines 171-187: the newsletter-level status and message of the results
Aggregate(results) ==
    IF Len(results) = 0
    THEN [status |-> "error", message |-> <<"Keine Abmelde-Links gefunden">>]
    ELSE IF \E i \in 1..Len(results) : results[i].status = "success"
    THEN [status |-> "success", message |-> <<"Erfolgreich abgemeldet">>]
    ELSE IF \E i \in 1..Len(results) : results[i].status = "needs_confirmation"
    THEN LET first == CHOOSE i \in 1..Len(results) :
                        /\ results[i].status = "needs_confirmation"
                        /\ \A j \in 1..(i - 1) : results[j].status # "needs_confirmation"
         IN  [status |-> "needs_confirmation",
              message |-> <<"Manuelle Bestätigung erforderlich", " - ",
                            results[first].link>>]
    ELSE [status |-> "error", message |-> results[1].message]

\* lines 189-193: the entry appended for a newsletter
ResultEntry(nl, results) ==
    [newsletter |-> nl.from, status |-> Aggregate(results).status,
     message |-> Aggregate(results).message]

\* lines 196-200: the entry appended when the job's try block catches
SystemEntry(text) ==
    [newsletter |-> <<"System">>, status |-> "error", message |-> <<text>>]

----------------------------------------------------------------------------
(* Direct calls of MailBot.unsubscribe(newsletter, auto_confirm) on one     *)
(* MailBot: the ledger on disk, the arguments and the collaborators'        *)
(* answers are drawn in the initial state; the call is made, and repeated   *)
(* with the same arguments and answers.                                     *)

\* the ids (fingerprints) in play
Ids == {"a", "b"}

\* how often the call is repeated
MaxCalls == 2

\* the lists over S without a repeated element
Lists(S) ==
    UNION {{s \in [1..k -> S] : NoDuplicates(s)} : k \in 0..Cardinality(S)}

\* The ledgers on disk when the MailBot is constructed. The file is written
\* by save_processed alone, and lines 503 and 508 append an id only when it
\* is not in the list yet: the lists have no repeated id, and every
\* unsubscribed id is a processed id.
InitLedgers ==
    { l \in [processed_ids : Lists(Ids), unsubscribed : Lists(Ids)] :
        Range(l.unsubscribed) \subseteq Range(l.processed_ids) }

\* the List-Unsubscribe link buckets of the newsletters passed in
LinkBuckets ==
    { [http |-> <<>>, mailto |-> <<"mailto:leave@x.test">>],
      [http |-> <<"https://x.test/u1">>, mailto |-> <<"mailto:leave@x.test">>],
      [http |-> <<"https://x.test/u1", "http://x.test/u2">>, mailto |-> <<>>] }

Newsletter(id, sender, links) ==
    [id |-> id, from |-> sender, from_email |-> sender, unsubscribe_links |-> links]

\* no direct call of unsubscribe
NoInput == [newsletter |-> Newsletter("a", "", [http |-> <<>>, mailto |-> <<>>]),
            auto_confirm |-> TRUE, envs |-> <<>>]

InitBot ==
    /\ file \in InitLedgers
    /\ heap = <<NewMailBot>>
    /\ bot = 1
    /\ PLAYWRIGHT_AVAILABLE \in BOOLEAN
    /\ \E id \in Ids, links \in LinkBuckets, ac \in BOOLEAN :
         \E envs \in [1..Len(links.http) -> LinkEnvs] :
            input = [newsletter |-> Newsletter(id, "news@x.test", links),
                     auto_confirm |-> ac, envs |-> envs]
    /\ call = <<>>
    /\ mailbox = NoMailbox
    /\ scanned = <<>>
    /\ AppAtStart

\* the ledger kept in memory and not written
save_processed_skipped(processed, written) == file

\* save_processed(self.processed): the file is rewritten in full; written is
\* false when opening the file for writing raises, which leaves it as it was
save_processed(processed, written) == IF written THEN processed ELSE file

\* MailBot.unsubscribe, lines 402-513, on the MailBot bot. The entry added to
\* call: the ledger of the MailBot before and after, the file after, the
\* attempts, and whether the call returned (it raises when the save does).
BotUnsubscribe(written) ==
    LET self == heap[bot]
        attempts == UnsubscribeAttempts(input.newsletter, input.envs,
                                        input.auto_confirm, PLAYWRIGHT_AVAILABLE)
        processed == MarkProcessed(self.processed, input.newsletter.id,
                                   ResultsOf(attempts))
    IN  /\ Len(call) < MaxCalls
        /\ heap' = [heap EXCEPT ![bot].processed = processed]
        /\ file' = save_processed(processed, written)
        /\ call' = Append(call, [before |-> self.processed, after |-> processed,
                                 saved |-> file', attempts |-> attempts,
                                 returned |-> written])
        /\ UNCHANGED <<bot, PLAYWRIGHT_AVAILABLE, input, mailbox, scanned, appVars>>

NextBot == \E written \in BOOLEAN : BotUnsubscribe(written)

SpecBot == InitBot /\ [][NextBot]_vars

----------------------------------------------------------------------------
(* Direct calls of MailBot.scan_all on a connected MailBot: the folders'     *)
(* contents, the answers to select and the ledger are drawn in the initial  *)
(* state; the call is made with each limit.                                 *)

\* most messages in a folder
MaxMessages == 2

\* the answers to select: OK, a NO status, an exception of the connection
Selects == {"OK", "NO", "raises"}

Mailboxes ==
    [INBOX : [messages : SeqsUpTo(Messages, MaxMessages), select : Selects],
     Junk : [messages : SeqsUpTo(Messages, MaxMessages), select : Selects]]

\* the limits passed: None, 0, 1, and the 200 of the scan job
Limits == {[given |-> FALSE, n |-> 0], [given |-> TRUE, n |-> 0],
           [given |-> TRUE, n |-> 1], [given |-> TRUE, n |-> 200]}

InitScan ==
    /\ file \in {EmptyLedger,
                 [processed_ids |-> <<"a", "b">>, unsubscribed |-> <<"a">>]}
    /\ heap = <<[NewMailBot EXCEPT !.connection = "connected"]>>
    /\ bot = 1
    /\ PLAYWRIGHT_AVAILABLE = TRUE
    /\ input = NoInput
    /\ call = <<>>
    /\ mailbox \in Mailboxes
    /\ scanned = <<>>
    /\ AppAtStart

\* MailBot.scan_all(limit_per_folder) on the MailBot bot. The entry added to
\* scanned: the limit, what each call of scan_folder returned (line 380) and
\* what scan_all returned.
BotScanAll(limit) ==
    /\ scanned = <<>>
    /\ scanned' = <<[limit |-> limit,
                     folders |-> [INBOX |-> scan_folder(heap[bot], mailbox, "INBOX", limit),
                                  Junk |-> scan_folder(heap[bot], mailbox, "Junk", limit)],
                     newsletters |-> scan_all(heap[bot], mailbox, limit)]>>
    /\ UNCHANGED <<file, heap, bot, PLAYWRIGHT_AVAILABLE, input, call, mailbox, appVars>>

NextScan == \E limit \in Limits : BotScanAll(limit)

SpecScan == InitScan /\ [][NextScan]_vars

----------------------------------------------------------------------------
(* The web application: requests arrive in any order and at any time, each  *)
(* job thread takes its steps interleaved with the others.  A step is a     *)
(* stretch of a thread between two blocking calls (network, IMAP); what it  *)
(* reads and writes of the shared globals and the file happens at once.     *)

\* the account the application scans: a newsletter with two web links in the
\* INBOX, one with no usable link in Junk
AppMailbox ==
    [INBOX |-> Folder(<<Message("<m2@x.test>", <<"sender@example.com">>, TRUE,
                                <<"http://x.test/u2", "https://x.test/u3">>, "OK")>>,
                      "OK"),
     Junk |-> Folder(<<Message("", <<" ", "Other@X.test", " ">>, TRUE,
                               <<"ftp://x.test/u">>, "OK")>>, "OK")]

\* what the links answer while a job runs
JobLinkEnvs ==
    { e \in LinkEnvs :
        \/ e.fetch = "timeout"
        \/ /\ e.fetch = "response" /\ e.code = 200
           /\ e.page.text = <<"Please Confirm">>
           /\ e.browser = "clicked" }

\* the ids a request can select
SelectableIds == {"b", "c"}

\* limit_per_folder=200 of line 96
ScanLimit == [given |-> TRUE, n |-> 200]

Init ==
    /\ file = EmptyLedger
    /\ heap = [b \in BotIds |-> NoBot]
    /\ bot = 0
    /\ PLAYWRIGHT_AVAILABLE = TRUE
    /\ input = NoInput
    /\ call = <<>>
    /\ mailbox = AppMailbox
    /\ scanned = <<>>
    /\ AppAtStart

\* `bot = MailBot()`: the heap and the global after it
AssignNewBot(connection) ==
    LET b == NewBotId(unsubJob)
    IN  /\ bot' = b
        /\ heap' = Collect([heap EXCEPT ![b] = [NewMailBot EXCEPT !.connection = connection]],
                           Referenced(b, unsubJob))

\* MailBot.connect on the global bot: logged in, or an object that is not
SetConnection(connection) ==
    heap' = [heap EXCEPT ![bot].connection = connection]

\* test_connection, lines 60-66: a new global MailBot, connected and, when
\* that worked, disconnected again
TestConnection(ok) ==
    /\ requests < MaxRequests
    /\ requests' = requests + 1
    /\ AssignNewBot(IF ok THEN "none" ELSE "failed")
    /\ UNCHANGED <<file, PLAYWRIGHT_AVAILABLE, input, call, mailbox, scanned,
                   scan_status, unsubscribe_status, scanJob, unsubJob>>

\* start_scan, lines 74-75 and 111-114: the request is refused while scanning
\* is set, else a thread is started (t is the first thread not alive)
StartScan(t) ==
    /\ ~scan_status.scanning
    /\ scanJob[t].pc = "idle"
    /\ \A u \in ScanThreads : u < t => scanJob[u].pc # "idle"
    /\ requests < MaxRequests
    /\ requests' = requests + 1
    /\ scanJob' = [scanJob EXCEPT ![t].pc = "begin"]
    /\ UNCHANGED <<file, heap, bot, PLAYWRIGHT_AVAILABLE, input, call, mailbox, scanned,
                   scan_status, unsubscribe_status, unsubJob>>

\* the job beginning without resetting the results of the scan before
ScanBeginKeepsNewsletters(t) ==
    /\ scanJob[t].pc = "begin"
    /\ scan_status' = [scan_status EXCEPT !.scanning = TRUE,
                          !.message = Message_("Verbinde...", 0)]
    /\ scanJob' = [scanJob EXCEPT ![t].pc = "new"]
    /\ UNCHANGED <<file, heap, bot, PLAYWRIGHT_AVAILABLE, input, call, mailbox, scanned,
                   unsubscribe_status, unsubJob, requests>>

\* do_scan, lines 79-82
ScanBegin(t) ==
    /\ scanJob[t].pc = "begin"
    /\ scan_status' = [scanning |-> TRUE, progress |-> 0,
                       message |-> Message_("Verbinde...", 0), newsletters |-> <<>>]
    /\ scanJob' = [scanJob EXCEPT ![t].pc = "new"]
    /\ UNCHANGED <<file, heap, bot, PLAYWRIGHT_AVAILABLE, input, call, mailbox, scanned,
                   unsubscribe_status, unsubJob, requests>>

\* do_scan, line 85, and the handler of lines 107-109: MailBot() gives the new
\* global, or raises (json.load on a config.json that cannot be parsed), which
\* the job's handler turns into the status message
ScanNewBot(t, ok) ==
    /\ scanJob[t].pc = "new"
    /\ IF ok
       THEN /\ AssignNewBot("none")
            /\ scanJob' = [scanJob EXCEPT ![t].pc = "connect"]
            /\ UNCHANGED scan_status
       ELSE /\ scan_status' = [scan_status EXCEPT !.scanning = FALSE,
                                  !.message = Message_("Fehler: Expecting value", 0)]
            /\ scanJob' = [scanJob EXCEPT ![t] = IdleScanJob]
            /\ UNCHANGED <<heap, bot>>
    /\ UNCHANGED <<file, PLAYWRIGHT_AVAILABLE, input, call, mailbox, scanned,
                   unsubscribe_status, unsubJob, requests>>

\* the job returning on a failed connect without clearing the flag
ScanConnectKeepsFlag(t, ok) ==
    /\ scanJob[t].pc = "connect"
    /\ IF ok
       THEN /\ SetConnection("connected")
            /\ scan_status' = [scan_status EXCEPT !.progress = 20,
                                  !.message = Message_("Scanne Posteingang...", 0)]
            /\ scanJob' = [scanJob EXCEPT ![t].pc = "scan"]
       ELSE /\ SetConnection("failed")
            /\ scan_status' = [scan_status EXCEPT
                                  !.message = Message_("Anmeldefehler: ", 0)]
            /\ scanJob' = [scanJob EXCEPT ![t] = IdleScanJob]
    /\ UNCHANGED <<file, bot, PLAYWRIGHT_AVAILABLE, input, call, mailbox, scanned,
                   unsubscribe_status, unsubJob, requests>>

\* do_scan, lines 86-94: connect on whatever the global bot is now
ScanConnect(t, ok) ==
    /\ scanJob[t].pc = "connect"
    /\ IF ok
       THEN /\ SetConnection("connected")
            /\ scan_status' = [scan_status EXCEPT !.progress = 20,
                                  !.message = Message_("Scanne Posteingang...", 0)]
            /\ scanJob' = [scanJob EXCEPT ![t].pc = "scan"]
       ELSE /\ SetConnection("failed")
            /\ scan_status' = [scan_status EXCEPT !.scanning = FALSE,
                                  !.message = Message_("Anmeldefehler: ", 0)]
            /\ scanJob' = [scanJob EXCEPT ![t] = IdleScanJob]
    /\ UNCHANGED <<file, bot, PLAYWRIGHT_AVAILABLE, input, call, mailbox, scanned,
                   unsubscribe_status, unsubJob, requests>>

\* do_scan, lines 96-100: scan_all on whatever the global bot is now
ScanAll(t) ==
    /\ scanJob[t].pc = "scan"
    /\ LET newsletters == scan_all(heap[bot], mailbox, ScanLimit)
       IN  scan_status' = [scan_status EXCEPT !.progress = 90,
                              !.message = Message_(" Newsletter gefunden", Len(newsletters)),
                              !.newsletters = newsletters]
    /\ scanJob' = [scanJob EXCEPT ![t].pc = "disconnect"]
    /\ UNCHANGED <<file, heap, bot, PLAYWRIGHT_AVAILABLE, input, call, mailbox, scanned,
                   unsubscribe_status, unsubJob, requests>>

\* do_scan, lines 102-105: disconnect on whatever the global bot is now
ScanDisconnect(t) ==
    /\ scanJob[t].pc = "disconnect"
    /\ SetConnection("none")
    /\ scan_status' = [scan_status EXCEPT !.progress = 100, !.scanning = FALSE]
    /\ scanJob' = [scanJob EXCEPT ![t] = IdleScanJob]
    /\ UNCHANGED <<file, bot, PLAYWRIGHT_AVAILABLE, input, call, mailbox, scanned,
                   unsubscribe_status, unsubJob, requests>>

\* get_newsletters, lines 123-134: the flags of the records in scan_status are
\* set from the ledger file
GetNewsletters ==
    /\ requests < MaxRequests
    /\ requests' = requests + 1
    /\ scan_status' = [scan_status EXCEPT !.newsletters =
          [i \in 1..Len(scan_status.newsletters) |->
              [scan_status.newsletters[i] EXCEPT
                  !.processed = scan_status.newsletters[i].id
                                    \in Range(load_processed.processed_ids),
                  !.unsubscribed = scan_status.newsletters[i].id
                                    \in Range(load_processed.unsubscribed)]]]
    /\ UNCHANGED <<file, heap, bot, PLAYWRIGHT_AVAILABLE, input, call, mailbox, scanned,
                   unsubscribe_status, scanJob, unsubJob>>

\* unsubscribe (the request), lines 142-154 and 204-207: refused while running
\* is set or with no ids, else a thread is started with the records of
\* scan_status whose id is selected
StartUnsubscribe(t, newsletter_ids) ==
    /\ ~unsubscribe_status.running
    /\ newsletter_ids # {}
    /\ unsubJob[t].pc = "idle"
    /\ \A u \in UnsubThreads : u < t => unsubJob[u].pc # "idle"
    /\ requests < MaxRequests
    /\ requests' = requests + 1
    /\ unsubJob' = [unsubJob EXCEPT ![t] =
          [pc |-> "begin",
           newsletters |-> SelectSeq(scan_status.newsletters,
                                     LAMBDA nl : nl.id \in newsletter_ids),
           i |-> 1, self |-> 0, attempts |-> <<>>]]
    /\ UNCHANGED <<file, heap, bot, PLAYWRIGHT_AVAILABLE, input, call, mailbox, scanned,
                   scan_status, unsubscribe_status, scanJob>>

\* do_unsubscribe, lines 158-161
UnsubscribeBegin(t) ==
    /\ unsubJob[t].pc = "begin"
    /\ unsubscribe_status' = [running |-> TRUE, current |-> 0,
                              total |-> Len(unsubJob[t].newsletters), results |-> <<>>]
    /\ unsubJob' = [unsubJob EXCEPT ![t].pc = "new"]
    /\ UNCHANGED <<file, heap, bot, PLAYWRIGHT_AVAILABLE, input, call, mailbox, scanned,
                   scan_status, scanJob, requests>>

\* do_unsubscribe, line 164
UnsubscribeNewBot(t) ==
    /\ unsubJob[t].pc = "new"
    /\ AssignNewBot("none")
    /\ unsubJob' = [unsubJob EXCEPT ![t].pc = "item"]
    /\ UNCHANGED <<file, PLAYWRIGHT_AVAILABLE, input, call, mailbox, scanned,
                   scan_status, unsubscribe_status, scanJob, requests>>

\* do_unsubscribe, lines 167-169, and unsubscribe, lines 402-500: current is
\* set, unsubscribe is called on whatever the global bot is now (self), and
\* the links are attempted
UnsubscribeAttempt(t, envs) ==
    LET nl == unsubJob[t].newsletters[unsubJob[t].i]
    IN  /\ unsubJob[t].pc = "item"
        /\ unsubJob[t].i <= Len(unsubJob[t].newsletters)
        /\ DOMAIN envs = 1..Len(nl.unsubscribe_links.http)
        /\ unsubscribe_status' = [unsubscribe_status EXCEPT !.current = unsubJob[t].i]
        /\ unsubJob' = [unsubJob EXCEPT ![t].pc = "mark", ![t].self = bot,
              ![t].attempts = UnsubscribeAttempts(nl, envs, TRUE, PLAYWRIGHT_AVAILABLE)]
        /\ UNCHANGED <<file, heap, bot, PLAYWRIGHT_AVAILABLE, input, call, mailbox,
                       scanned, scan_status, scanJob, requests>>

\* unsubscribe, lines 502-513, on self, and do_unsubscribe, lines 171-200: the
\* ledger of self is updated and saved; then the newsletter's entry is
\* appended and the loop goes on, or, when the save raised, the handler of
\* line 195 appends its entry and the loop is left
UnsubscribeMark(t, written) ==
    LET job == unsubJob[t]
        nl == job.newsletters[job.i]
        processed == MarkProcessed(heap[job.self].processed, nl.id,
                                   ResultsOf(job.attempts))
        left == [unsubJob EXCEPT ![t].self = 0]
    IN  /\ job.pc = "mark"
        /\ heap' = Collect([heap EXCEPT ![job.self].processed = processed],
                           Referenced(bot, left))
        /\ file' = save_processed(processed, written)
        /\ IF written
           THEN /\ unsubscribe_status' = [unsubscribe_status EXCEPT !.results =
                      Append(@, ResultEntry(nl, ResultsOf(job.attempts)))]
                /\ unsubJob' = [left EXCEPT ![t].pc = "item", ![t].i = job.i + 1,
                                            ![t].attempts = <<>>]
           ELSE /\ unsubscribe_status' = [unsubscribe_status EXCEPT !.results =
                      Append(@, SystemEntry("Permission denied"))]
                /\ unsubJob' = [left EXCEPT ![t].pc = "finally", ![t].attempts = <<>>]
        /\ UNCHANGED <<bot, PLAYWRIGHT_AVAILABLE, input, call, mailbox, scanned,
                       scan_status, scanJob, requests>>

\* do_unsubscribe, lines 201-202, after the loop or after the handler
UnsubscribeFinally(t) ==
    /\ \/ unsubJob[t].pc = "finally"
       \/ unsubJob[t].pc = "item" /\ unsubJob[t].i > Len(unsubJob[t].newsletters)
    /\ unsubscribe_status' = [unsubscribe_status EXCEPT !.running = FALSE]
    /\ unsubJob' = [unsubJob EXCEPT ![t] = IdleUnsubJob]
    /\ UNCHANGED <<file, heap, bot, PLAYWRIGHT_AVAILABLE, input, call, mailbox, scanned,
                   scan_status, scanJob, requests>>

Next ==
    \/ \E ok \in BOOLEAN : TestConnection(ok)
    \/ GetNewsletters
    \/ \E t \in ScanThreads :
          \/ StartScan(t)
          \/ ScanBegin(t)
          \/ \E ok \in BOOLEAN : ScanNewBot(t, ok)
          \/ \E ok \in BOOLEAN : ScanConnect(t, ok)
          \/ ScanAll(t)
          \/ ScanDisconnect(t)
    \/ \E t \in UnsubThreads :
          \/ \E newsletter_ids \in SUBSET SelectableIds :
                StartUnsubscribe(t, newsletter_ids)
          \/ UnsubscribeBegin(t)
          \/ UnsubscribeNewBot(t)
          \/ \E envs \in SeqsUpTo(JobLinkEnvs, 2) : UnsubscribeAttempt(t, envs)
          \/ \E written \in BOOLEAN : UnsubscribeMark(t, written)
          \/ UnsubscribeFinally(t)

Spec == Init /\ [][Next]_vars

\* the steps of a do_scan thread and of a do_unsubscribe thread
ScanStep(t) ==
    \/ ScanBegin(t)
    \/ \E ok \in BOOLEAN : ScanNewBot(t, ok)
    \/ \E ok \in BOOLEAN : ScanConnect(t, ok)
    \/ ScanAll(t)
    \/ ScanDisconnect(t)

UnsubscribeStep(t) ==
    \/ UnsubscribeBegin(t)
    \/ UnsubscribeNewBot(t)
    \/ \E envs \in SeqsUpTo(JobLinkEnvs, 2) : UnsubscribeAttempt(t, envs)
    \/ \E written \in BOOLEAN : UnsubscribeMark(t, written)
    \/ UnsubscribeFinally(t)

----------------------------------------------------------------------------
(* One unsubscribe job running alone, after a scan of the account has       *)
(* finished: the request selects some of the scanned newsletters, the one   *)
(* thread works through them, the links answer anything.                    *)

\* scan_status when a scan job that found the newsletters has finished
ScanStatusAfter(newsletters) ==
    [scanning |-> FALSE, progress |-> 100,
     message |-> Message_(" Newsletter gefunden", Len(newsletters)),
     newsletters |-> newsletters]

InitJob ==
    /\ file \in {EmptyLedger, [processed_ids |-> <<"c">>, unsubscribed |-> <<>>]}
    /\ heap = [b \in BotIds |-> NoBot]
    /\ bot = 0
    /\ PLAYWRIGHT_AVAILABLE \in BOOLEAN
    /\ input = NoInput
    /\ call = <<>>
    /\ mailbox = AppMailbox
    /\ scanned = <<>>
    /\ scan_status = ScanStatusAfter(
          scan_all([NewMailBot EXCEPT !.connection = "connected"], mailbox, ScanLimit))
    /\ unsubscribe_status = UnsubscribeStatusAtStart
    /\ scanJob = [t \in ScanThreads |-> IdleScanJob]
    /\ unsubJob = [t \in UnsubThreads |-> IdleUnsubJob]
    /\ requests = 0

NextJob ==
    \/ \E newsletter_ids \in SUBSET SelectableIds : StartUnsubscribe(1, newsletter_ids)
    \/ UnsubscribeBegin(1)
    \/ UnsubscribeNewBot(1)
    \/ \E envs \in SeqsUpTo(LinkEnvs, 2) : UnsubscribeAttempt(1, envs)
    \/ \E written \in BOOLEAN : UnsubscribeMark(1, written)
    \/ UnsubscribeFinally(1)

SpecJob == InitJob /\ [][NextJob]_vars

----------------------------------------------------------------------------
(* One scan job and one unsubscribe job at a time, side by side, under fair *)
(* scheduling: a start request is handled only when no thread of its type   *)
(* is alive.                                                                *)

\* how many jobs are started
MaxJobs == 2

InitJobs == InitJob /\ PLAYWRIGHT_AVAILABLE

NextJobs ==
    \/ requests < MaxJobs /\ StartScan(1)
    \/ ScanStep(1)
    \/ /\ requests < MaxJobs
       /\ \E newsletter_ids \in SUBSET SelectableIds : StartUnsubscribe(1, newsletter_ids)
    \/ UnsubscribeStep(1)

\* A started thread is scheduled, and every call it makes (IMAP, HTTP, browser,
\* file) returns or raises: a thread that can take a step takes one.
SpecJobs ==
    InitJobs /\ [][NextJobs]_vars /\ WF_vars(ScanStep(1)) /\ WF_vars(UnsubscribeStep(1))

----------------------------------------------------------------------------
(* Properties of MailBot.unsubscribe, checked under SpecBot *)

Subscribed(ledger) == Range(ledger.unsubscribed) \subseteq Range(ledger.processed_ids)

TheId == input.newsletter.id

TheLinks == input.newsletter.unsubscribe_links.http

Statuses(c) == {c.attempts[i].result.status : i \in 1..Len(c.attempts)}

\* C1: after any sequence of unsubscribe calls from a ledger in which every
\* unsubscribed id is a processed id, every unsubscribed id is a processed id,
\* in the MailBot's ledger and in the ledger file.
C1_LedgerInvariant == Subscribed(heap[bot].processed) /\ Subscribed(file)

\* a call has put an id into unsubscribed that was in neither list before, and
\* the save went through
C1_Witness ==
    /\ Len(call) >= 1
    /\ TheId \notin Range(call[1].before.processed_ids)
    /\ TheId \in Range(file.unsubscribed)
    /\ TheId \in Range(heap[bot].processed.unsubscribed)

\* C4: when unsubscribe has returned, the id is in processed_ids (of the
\* MailBot and of the file it has just written) whatever the links did; and an
\* id that was not in unsubscribed before the call is in unsubscribed after it
\* exactly when one of the call's results has status success.
C4_LedgerUpdateRule ==
    \A k \in 1..Len(call) :
        call[k].returned =>
            /\ TheId \in Range(call[k].after.processed_ids)
            /\ TheId \in Range(call[k].saved.processed_ids)
            /\ TheId \notin Range(call[k].before.unsubscribed) =>
                  /\ TheId \in Range(call[k].after.unsubscribed)
                        <=> "success" \in Statuses(call[k])
                  /\ TheId \in Range(call[k].saved.unsubscribed)
                        <=> "success" \in Statuses(call[k])

\* a returned call with links, none of which succeeded: processed, not
\* unsubscribed
C4_Witness ==
    /\ Len(call) >= 1
    /\ call[1].returned
    /\ Len(TheLinks) = 2
    /\ "success" \notin Statuses(call[1])
    /\ TheId \notin Range(call[1].before.processed_ids)
    /\ TheId \in Range(call[1].saved.processed_ids)
    /\ TheId \notin Range(call[1].saved.unsubscribed)

AllAlreadyUnsubscribed ==
    \A i \in 1..Len(input.envs) :
        /\ input.envs[i].fetch = "response"
        /\ input.envs[i].code = 200
        /\ already_unsubscribed(input.envs[i].page)

Occurrences(s, x) == Cardinality({i \in 1..Len(s) : s[i] = x})

\* C7: when every web link of the newsletter returns a page with an "already
\* unsubscribed" phrase, two calls of unsubscribe on it both give status
\* success for every link, and the second call leaves processed_ids and
\* unsubscribed as they were: same lists, the id once in each (the file too,
\* when both calls saved).
C7_Idempotence ==
    (Len(call) >= 2 /\ AllAlreadyUnsubscribed) =>
        /\ \A k \in 1..2 : \A i \in 1..Len(TheLinks) :
              call[k].attempts[i].result.status = "success"
        /\ call[2].after = call[2].before
        /\ Occurrences(call[2].after.processed_ids, TheId) = 1
        /\ Len(TheLinks) > 0 => Occurrences(call[2].after.unsubscribed, TheId) = 1
        /\ (call[1].returned /\ call[2].returned) => call[2].saved = call[1].saved

\* two calls on a newsletter with two links, both answering with the phrase,
\* the id new to the ledger before the first
C7_Witness ==
    /\ Len(call) = 2
    /\ AllAlreadyUnsubscribed
    /\ Len(TheLinks) = 2
    /\ call[1].returned /\ call[2].returned
    /\ TheId \notin Range(call[1].before.processed_ids)
    /\ TheId \in Range(file.unsubscribed)

\* C9: unsubscribe returns exactly one result per web link, in the order of
\* the links, whatever the earlier links did: result i is for link i and is
\* what the attempt on link i alone gives.
C9_PerLinkIsolation ==
    \A k \in 1..Len(call) :
        /\ Len(call[k].attempts) = Len(TheLinks)
        /\ \A i \in 1..Len(call[k].attempts) :
              /\ call[k].attempts[i].result.link = TheLinks[i]
              /\ (input.envs[i].fetch = "response" /\ input.envs[i].code = 200
                    /\ already_unsubscribed(input.envs[i].page))
                    => call[k].attempts[i].result.status = "success"
              /\ input.envs[i].fetch # "response"
                    => call[k].attempts[i].result.status = "error"

\* the first link timed out and the second link was still attempted, and
\* succeeded
C9_Witness ==
    /\ Len(call) >= 1
    /\ Len(TheLinks) = 2
    /\ input.envs[1].fetch = "timeout"
    /\ Len(call[1].attempts) = 2
    /\ call[1].attempts[1].result.status = "error"
    /\ call[1].attempts[2].result.status = "success"
    /\ call[1].attempts[2].result.link = TheLinks[2]

\* C10: a link whose fetch times out gets status error with the timeout
\* message, which is neither the text of the exception nor an HTTP status
\* message; and when no link succeeds and the id was not in the ledger, the
\* ledger afterwards has the id in processed_ids and not in unsubscribed.
C10_TimeoutOutcome ==
    \A k \in 1..Len(call) :
        /\ \A i \in 1..Len(TheLinks) :
              input.envs[i].fetch = "timeout" =>
                  /\ call[k].attempts[i].result.status = "error"
                  /\ call[k].attempts[i].result.message = <<"Zeitüberschreitung">>
                  /\ call[k].attempts[i].result.message # <<input.envs[i].text>>
                  /\ call[k].attempts[i].result.message[1] # "HTTP "
        /\ ( /\ \E i \in 1..Len(TheLinks) : input.envs[i].fetch = "timeout"
             /\ "success" \notin Statuses(call[k])
             /\ TheId \notin Range(call[k].before.processed_ids)
             /\ TheId \notin Range(call[k].before.unsubscribed) ) =>
                  /\ TheId \in Range(call[k].after.processed_ids)
                  /\ TheId \notin Range(call[k].after.unsubscribed)
                  /\ call[k].returned =>
                        /\ TheId \in Range(call[k].saved.processed_ids)
                        /\ TheId \notin Range(call[k].saved.unsubscribed)

\* the only link timed out, the id was new: processed on disk, not unsubscribed
C10_Witness ==
    /\ Len(call) >= 1
    /\ call[1].returned
    /\ Len(TheLinks) = 1
    /\ input.envs[1].fetch = "timeout"
    /\ TheId \notin Range(call[1].before.processed_ids)
    /\ call[1].attempts[1].result.message = <<"Zeitüberschreitung">>
    /\ TheId \in Range(file.processed_ids)
    /\ TheId \notin Range(file.unsubscribed)

\* link i of the call answers 200 with a page that has no success phrase and
\* has a form, a submit/button control or an anchor with a confirmation word
AsksConfirmation(i) ==
    /\ input.envs[i].fetch = "response"
    /\ input.envs[i].code = 200
    /\ ~already_unsubscribed(input.envs[i].page)
    /\ needs_confirmation(input.envs[i].page)

NewToLedger(c) ==
    /\ TheId \notin Range(c.before.processed_ids)
    /\ TheId \notin Range(c.before.unsubscribed)

\* the id is processed and not unsubscribed after the call, on disk too when
\* the call returned
ProcessedOnly(c) ==
    /\ TheId \in Range(c.after.processed_ids)
    /\ TheId \notin Range(c.after.unsubscribed)
    /\ c.returned => /\ TheId \in Range(c.saved.processed_ids)
                     /\ TheId \notin Range(c.saved.unsubscribed)

\* C11: with auto_confirm false, a link that answers 200 with a page that asks
\* for confirmation and has no success phrase gets status needs_confirmation
\* and the automation is not called; when it is the only web link and the id
\* was not in the ledger, the id ends processed and not unsubscribed.
C11_ManualConfirmation ==
    \A k \in 1..Len(call) :
        ~input.auto_confirm =>
            /\ \A i \in 1..Len(TheLinks) :
                  AsksConfirmation(i) =>
                      /\ call[k].attempts[i].result.status = "needs_confirmation"
                      /\ call[k].attempts[i].result.link = TheLinks[i]
                      /\ ~call[k].attempts[i].auto
            /\ (Len(TheLinks) = 1 /\ AsksConfirmation(1) /\ NewToLedger(call[k]))
                  => ProcessedOnly(call[k])

\* one link, a page with a form and no phrase, auto_confirm false, the id new:
\* needs_confirmation, and on disk processed only
C11_Witness ==
    /\ Len(call) >= 1
    /\ call[1].returned
    /\ ~input.auto_confirm
    /\ Len(TheLinks) = 1
    /\ AsksConfirmation(1)
    /\ input.envs[1].page.forms > 0
    /\ NewToLedger(call[1])
    /\ call[1].attempts[1].result.status = "needs_confirmation"
    /\ TheId \in Range(file.processed_ids)
    /\ TheId \notin Range(file.unsubscribed)

\* C12: a link that answers 200 with a page whose text has one of the success
\* phrases gets status success and the automation is not called for it,
\* whatever else the page has and whatever auto_confirm is.
C12_SuccessPhrasePrecedence ==
    \A k \in 1..Len(call) : \A i \in 1..Len(TheLinks) :
        ( /\ input.envs[i].fetch = "response"
          /\ input.envs[i].code = 200
          /\ already_unsubscribed(input.envs[i].page) ) =>
              /\ call[k].attempts[i].result.status = "success"
              /\ call[k].attempts[i].result.message = <<"Erfolgreich abgemeldet">>
              /\ ~call[k].attempts[i].auto

\* a page with the phrase, a form and a submit control, auto_confirm true and
\* the browser installed: success, the automation not called
C12_Witness ==
    /\ Len(call) >= 1
    /\ input.auto_confirm
    /\ PLAYWRIGHT_AVAILABLE
    /\ Len(TheLinks) >= 1
    /\ input.envs[1].fetch = "response"
    /\ input.envs[1].code = 200
    /\ already_unsubscribed(input.envs[1].page)
    /\ needs_confirmation(input.envs[1].page)
    /\ call[1].attempts[1].result.status = "success"
    /\ ~call[1].attempts[1].auto

\* the automation, were it called on link i, reports success
AutomationSucceeds(i) ==
    PLAYWRIGHT_AVAILABLE /\ input.envs[i].browser \in {"indicator", "clicked"}

\* C13: with auto_confirm true, a link that asks for confirmation gets status
\* success when the automation reports success and needs_confirmation when the
\* automation is not installed, finds nothing to click or raises, never error;
\* and the call still gives one result per link and marks the id processed.
C13_AutomationDegrades ==
    \A k \in 1..Len(call) :
        (input.auto_confirm /\ \E i \in 1..Len(TheLinks) : AsksConfirmation(i)) =>
            /\ \A i \in 1..Len(TheLinks) :
                  AsksConfirmation(i) =>
                      /\ call[k].attempts[i].auto
                      /\ AutomationSucceeds(i)
                            => call[k].attempts[i].result.status = "success"
                      /\ ~AutomationSucceeds(i)
                            => /\ call[k].attempts[i].result.status = "needs_confirmation"
                               /\ call[k].attempts[i].result.message[1]
                                     = "Automatische Bestätigung fehlgeschlagen: "
                      /\ call[k].attempts[i].result.status # "error"
            /\ Len(call[k].attempts) = Len(TheLinks)
            /\ TheId \in Range(call[k].after.processed_ids)
            /\ call[k].returned => TheId \in Range(call[k].saved.processed_ids)
            /\ "success" \in Statuses(call[k])
                  => TheId \in Range(call[k].after.unsubscribed)

\* the browser raised on the first link, which needs confirmation; the second
\* link was still attempted and succeeded, and the id is unsubscribed on disk
C13_Witness ==
    /\ Len(call) >= 1
    /\ call[1].returned
    /\ input.auto_confirm
    /\ PLAYWRIGHT_AVAILABLE
    /\ Len(TheLinks) = 2
    /\ AsksConfirmation(1)
    /\ input.envs[1].browser = "raises"
    /\ call[1].attempts[1].result.status = "needs_confirmation"
    /\ call[1].attempts[2].result.status = "success"
    /\ NewToLedger(call[1])
    /\ TheId \in Range(file.unsubscribed)

TheMailtoLinks == input.newsletter.unsubscribe_links.mailto

\* C14: no result of unsubscribe is for a mailto link, and there is one result
\* per web link only; a newsletter with mailto links alone gives no result, is
\* marked processed and is not marked unsubscribed.
C14_MailtoNeverActioned ==
    \A k \in 1..Len(call) :
        /\ Len(call[k].attempts) = Len(TheLinks)
        /\ \A i \in 1..Len(call[k].attempts) :
              call[k].attempts[i].result.link \notin Range(TheMailtoLinks)
        /\ (Len(TheLinks) = 0 /\ Len(TheMailtoLinks) > 0) =>
              /\ call[k].attempts = <<>>
              /\ TheId \in Range(call[k].after.processed_ids)
              /\ call[k].returned => TheId \in Range(call[k].saved.processed_ids)
              /\ call[k].after.unsubscribed = call[k].before.unsubscribed
              /\ NewToLedger(call[k]) => ProcessedOnly(call[k])

\* a newsletter with one mailto link and no web link, the id new: no result,
\* on disk processed and not unsubscribed
C14_Witness ==
    /\ Len(call) >= 1
    /\ call[1].returned
    /\ Len(TheLinks) = 0
    /\ Len(TheMailtoLinks) = 1
    /\ NewToLedger(call[1])
    /\ call[1].attempts = <<>>
    /\ TheId \in Range(file.processed_ids)
    /\ TheId \notin Range(file.unsubscribed)

----------------------------------------------------------------------------
(* Properties of MailBot.scan_all, checked under SpecScan *)

\* what the two folders give, INBOX first
Concatenation(limit) ==
    scan_folder(heap[bot], mailbox, "INBOX", limit)
    \o scan_folder(heap[bot], mailbox, "Junk", limit)

SenderOf(record) == Lower(record.from_email)

\* the places of the records that are the first of their sender
FirstPlaces(all) ==
    {i \in 1..Len(all) : \A j \in 1..(i - 1) : SenderOf(all[j]) # SenderOf(all[i])}

\* the k-th smallest element of a set of numbers
Kth(S, k) == CHOOSE i \in S : Cardinality({j \in S : j < i}) = k - 1

\* C8: scan_all returns exactly one record per distinct lowercased sender of
\* the concatenation of the INBOX and the Junk records: the first record of
\* each sender, in the order of the concatenation.
C8_Deduplication ==
    \A c \in 1..Len(scanned) :
        LET all == Concatenation(scanned[c].limit)
            kept == scanned[c].newsletters
        IN  /\ Len(kept) = Cardinality(FirstPlaces(all))
            /\ \A k \in 1..Len(kept) : kept[k] = all[Kth(FirstPlaces(all), k)]
            /\ \A i, j \in 1..Len(kept) :
                  SenderOf(kept[i]) = SenderOf(kept[j]) => i = j
            /\ {SenderOf(kept[i]) : i \in 1..Len(kept)}
                  = {SenderOf(all[i]) : i \in 1..Len(all)}

\* Sender@Example.com in INBOX and sender@example.com in Junk: one record, the
\* one from INBOX
C8_Witness ==
    /\ Len(scanned) = 1
    /\ Len(mailbox.INBOX.messages) = 1
    /\ Len(mailbox.Junk.messages) = 1
    /\ Len(Concatenation(scanned[1].limit)) = 2
    /\ Concatenation(scanned[1].limit)[1].from_email = "Sender@Example.com"
    /\ Concatenation(scanned[1].limit)[2].from_email = "sender@example.com"
    /\ Len(scanned[1].newsletters) = 1
    /\ scanned[1].newsletters[1].folder = "INBOX"
    /\ scanned[1].newsletters[1].from_email = "Sender@Example.com"

FolderNames == {"INBOX", "Junk"}

\* the messages of a folder, newest (highest message number) first
NewestFirst(folder_name) == Reverse(mailbox[folder_name].messages)

\* a message whose headers can be fetched and whose List-Unsubscribe header is
\* there and not empty
FetchedWithHeader(msg) ==
    msg.fetch = "OK" /\ msg.present /\ msg.list_unsubscribe # <<>>

\* C15: a folder whose select answers not OK or raises gives no records, and
\* scan_all still returns the records of the other folder: with a bad INBOX,
\* the result is made of the Junk records, every Junk sender is in it, and a
\* fetchable newsletter that is the newest message of Junk comes first.
C15_BadFolderNonFatal ==
    \A c \in 1..Len(scanned) :
        LET r == scanned[c]
        IN  /\ \A f \in FolderNames :
                  mailbox[f].select # "OK" => r.folders[f] = <<>>
            /\ mailbox.INBOX.select # "OK" =>
                  /\ Range(r.newsletters) \subseteq Range(r.folders.Junk)
                  /\ {SenderOf(x) : x \in Range(r.newsletters)}
                        = {SenderOf(x) : x \in Range(r.folders.Junk)}
                  /\ ( /\ mailbox.Junk.select = "OK"
                       /\ mailbox.Junk.messages # <<>>
                       /\ FetchedWithHeader(NewestFirst("Junk")[1]) ) =>
                          /\ r.newsletters # <<>>
                          /\ r.newsletters[1].folder = "Junk"
                          /\ r.newsletters[1].from = NewestFirst("Junk")[1].from
            /\ mailbox.Junk.select # "OK" =>
                  /\ Range(r.newsletters) \subseteq Range(r.folders.INBOX)
                  /\ {SenderOf(x) : x \in Range(r.newsletters)}
                        = {SenderOf(x) : x \in Range(r.folders.INBOX)}

\* selecting INBOX raises, INBOX has a newsletter, Junk has one too: scan_all
\* returns the one of Junk
C15_Witness ==
    /\ Len(scanned) = 1
    /\ mailbox.INBOX.select = "raises"
    /\ mailbox.INBOX.messages # <<>>
    /\ FetchedWithHeader(mailbox.INBOX.messages[1])
    /\ mailbox.Junk.select = "OK"
    /\ scanned[1].folders.INBOX = <<>>
    /\ Len(scanned[1].newsletters) = 1
    /\ scanned[1].newsletters[1].folder = "Junk"

\* how many messages a limit lets through: the limit when one is supplied and
\* the folder has more, the whole folder otherwise
Cap(limit, n) == IF limit.given /\ limit.n < n THEN limit.n ELSE n

\* the records of the fetchable newsletters among msgs, in the order of msgs
RecordsOf(msgs, folder_name) ==
    LET news == SelectSeq(msgs, FetchedWithHeader)
    IN  [k \in 1..Len(news) |-> [from |-> news[k].from, message_id |-> news[k].message_id,
                                  folder |-> folder_name]]

\* what identifies the message a record was built from
Origin(records) ==
    [k \in 1..Len(records) |-> [from |-> records[k].from,
                                 message_id |-> records[k].message_id,
                                 folder |-> records[k].folder]]

\* C16: scan_folder returns the records of the newest-first messages, and with
\* a limit L >= 0 supplied only of the L most recent ones.
C16_ScanOrderAndCap ==
    \A c \in 1..Len(scanned) : \A f \in FolderNames :
        mailbox[f].select = "OK" =>
            Origin(scanned[c].folders[f])
                = RecordsOf(SubSeq(NewestFirst(f), 1,
                                   Cap(scanned[c].limit, Len(mailbox[f].messages))), f)

\* the messages scan_folder goes through: newest first, cut by the limit as
\* the code cuts it
Inspected(f, limit) == Limited(NewestFirst(f), limit)

\* C17: of the messages scan_folder goes through and can fetch, exactly those
\* with a List-Unsubscribe header that is there and not empty give a record,
\* one each and in order; a header from which no web or mailto link can be
\* taken gives a record with both link lists empty.
C17_HeaderOnlyClassification ==
    \A c \in 1..Len(scanned) : \A f \in FolderNames :
        mailbox[f].select = "OK" =>
            LET records == scanned[c].folders[f]
                news == SelectSeq(Inspected(f, scanned[c].limit), FetchedWithHeader)
            IN  /\ Origin(records) = RecordsOf(Inspected(f, scanned[c].limit), f)
                /\ \A k \in 1..Len(records) :
                      (\A i \in 1..Len(news[k].list_unsubscribe) :
                           Scheme(news[k].list_unsubscribe[i]) = "other") =>
                          /\ records[k].unsubscribe_links.http = <<>>
                          /\ records[k].unsubscribe_links.mailto = <<>>

\* INBOX holds a message without the header and one whose header has an ftp
\* URI alone: one record, with no links
C17_Witness ==
    /\ Len(scanned) = 1
    /\ mailbox.INBOX.select = "OK"
    /\ Len(mailbox.INBOX.messages) = 2
    /\ ~mailbox.INBOX.messages[1].present
    /\ mailbox.INBOX.messages[2].list_unsubscribe = <<"ftp://x.test/u">>
    /\ ~scanned[1].limit.given
    /\ Len(scanned[1].folders.INBOX) = 1
    /\ scanned[1].folders.INBOX[1].unsubscribe_links = [http |-> <<>>, mailto |-> <<>>]

----------------------------------------------------------------------------
(* Properties of the jobs *)

Last(s) == s[Len(s)]

\* the threads of a kind that have run their first statement and not finished
Working(jobs) == {t \in DOMAIN jobs : jobs[t].pc \notin {"idle", "begin"}}

\* C2: at most one scan job and at most one unsubscribe job is at work at any
\* time.
C2_SingleFlight ==
    /\ Cardinality(Working(scanJob)) <= 1
    /\ Cardinality(Working(unsubJob)) <= 1

\* C3: an id in processed_ids, or in unsubscribed, of the ledger file is still
\* there after every step.
C3_LedgerMonotone ==
    [][ /\ Range(file.processed_ids) \subseteq Range(file'.processed_ids)
        /\ Range(file.unsubscribed) \subseteq Range(file'.unsubscribed) ]_vars

\* the entry the claim asks for: success if a result is success, else
\* needs_confirmation with the first such link, else error with the first
\* result's message, and the no-links error for no results
Precedence(entry, results) ==
    LET statuses == {results[i].status : i \in 1..Len(results)}
    IN  /\ "success" \in statuses =>
              entry.status = "success" /\ entry.message = <<"Erfolgreich abgemeldet">>
        /\ ("success" \notin statuses /\ "needs_confirmation" \in statuses) =>
              /\ entry.status = "needs_confirmation"
              /\ \E i \in 1..Len(results) :
                    /\ results[i].status = "needs_confirmation"
                    /\ \A j \in 1..(i - 1) : results[j].status # "needs_confirmation"
                    /\ entry.message =
                          <<"Manuelle Bestätigung erforderlich", " - ", results[i].link>>
        /\ (statuses = {"error"}) =>
              entry.status = "error" /\ entry.message = results[1].message
        /\ (statuses = {}) =>
              /\ entry.status = "error"
              /\ entry.message = <<"Keine Abmelde-Links gefunden">>

\* C5: the entry an unsubscribe job appends for a newsletter follows the
\* precedence success, needs_confirmation (first such link), error (first
\* message), no links.
C5_AggregationPrecedence ==
    [][ \A t \in UnsubThreads :
          (unsubJob[t].pc = "mark" /\ unsubJob'[t].pc = "item") =>
              /\ Len(unsubscribe_status'.results) = Len(unsubscribe_status.results) + 1
              /\ Last(unsubscribe_status'.results).newsletter =
                    unsubJob[t].newsletters[unsubJob[t].i].from
              /\ Precedence(Last(unsubscribe_status'.results),
                            ResultsOf(unsubJob[t].attempts)) ]_vars

\* an entry for a newsletter whose first link failed and whose second link
\* needs confirmation: the second link is the one reported
C5_Witness ==
    \E k \in 1..Len(unsubscribe_status.results) :
        /\ unsubscribe_status.results[k].status = "needs_confirmation"
        /\ unsubscribe_status.results[k].message =
              <<"Manuelle Bestätigung erforderlich", " - ", "https://x.test/u3">>

\* the job is through: the loop is over, or the handler of line 195 has run
Through(job) ==
    job.pc = "finally" \/ (job.pc = "item" /\ job.i > Len(job.newsletters))

\* C6: when an unsubscribe job is through, every selected newsletter was
\* attempted and has its own entry in the results, whether or not an attempt
\* raised.
C6_BatchIsolation ==
    \A t \in UnsubThreads :
        Through(unsubJob[t]) =>
            /\ Len(unsubscribe_status.results) = Len(unsubJob[t].newsletters)
            /\ \A k \in 1..Len(unsubJob[t].newsletters) :
                  unsubscribe_status.results[k].newsletter =
                      unsubJob[t].newsletters[k].from

\* C20: in an unsubscribe job running alone, once the attempt for a newsletter
\* has returned the ledger file has the ids of that newsletter and of all the
\* job's newsletters before it in processed_ids, and is equal to the ledger of
\* the MailBot in use; during an attempt the ids of the newsletters before it
\* are in the file.
C20_WriteThrough ==
    \A t \in UnsubThreads :
        LET job == unsubJob[t]
        IN  /\ job.pc \in {"item", "mark"} =>
                  \A m \in 1..(job.i - 1) :
                      job.newsletters[m].id \in Range(file.processed_ids)
            /\ job.pc = "item" => heap[bot].processed = file

\* the attempts for both newsletters of a job have returned: both ids are in
\* the file, which is the MailBot's ledger
C20_Witness ==
    /\ unsubJob[1].pc = "item"
    /\ Len(unsubJob[1].newsletters) = 2
    /\ unsubJob[1].i = 3
    /\ Len(unsubscribe_status.results) = 2
    /\ {"b", "c"} \subseteq Range(file.processed_ids)
    /\ "b" \in Range(file.unsubscribed)
    /\ heap[bot].processed = file

----------------------------------------------------------------------------
(* Properties of the jobs side by side, checked under SpecJobs *)

\* C18: a started scan thread comes to its end with scanning false, and a
\* started unsubscribe thread with running false, on every path; and when the
\* flag is false a start request is accepted.
C18_JobsRunToCompletion ==
    /\ (scanJob[1].pc # "idle") ~> (scanJob[1].pc = "idle" /\ ~scan_status.scanning)
    /\ (unsubJob[1].pc # "idle")
          ~> (unsubJob[1].pc = "idle" /\ ~unsubscribe_status.running)
    /\ []((~scan_status.scanning /\ scanJob[1].pc = "idle" /\ requests < MaxJobs)
            => ENABLED StartScan(1))
    /\ []((~unsubscribe_status.running /\ unsubJob[1].pc = "idle"
               /\ requests < MaxJobs)
            => ENABLED StartUnsubscribe(1, SelectableIds))

\* a scan job has ended in its exception handler with the flag cleared, and
\* the next start request has been accepted
C18_Witness ==
    /\ requests = 2
    /\ scan_status.message = Message_("Fehler: Expecting value", 0)
    /\ ~scan_status.scanning
    /\ scanJob[1].pc = "begin"

\* what connect returns when it fails, as scan_status shows it
ConnectionFailure == Message_("Anmeldefehler: ", 0)

\* C19: when the connect of a scan job fails, the job ends there without
\* scanning a folder, with scanning false, the failure message as status
\* message, no newsletters and progress below 100; and the status stays so
\* while no new job has begun.
C19_ConnectionFailureTerminal ==
    /\ [][ (scanJob[1].pc = "connect" /\ heap'[bot].connection = "failed") =>
              /\ scanJob'[1].pc = "idle"
              /\ ~scan_status'.scanning
              /\ scan_status'.message = ConnectionFailure
              /\ scan_status'.newsletters = <<>>
              /\ scan_status'.progress < 100 ]_vars
    /\ [](scan_status.message = ConnectionFailure =>
              /\ scanJob[1].pc \in {"idle", "begin"}
              /\ ~scan_status.scanning
              /\ scan_status.newsletters = <<>>
              /\ scan_status.progress < 100)

\* a scan job, started when the scan before had found newsletters, has ended
\* on a failed connect
C19_Witness ==
    /\ requests = 1
    /\ scanJob[1].pc = "idle"
    /\ bot # 0
    /\ heap[bot].connection = "failed"
    /\ scan_status = [scanning |-> FALSE, progress |-> 0,
                      message |-> ConnectionFailure, newsletters |-> <<>>]

----------------------------------------------------------------------------
(* Properties of the web application under every interleaving, checked     *)
(* under Spec                                                               *)

\* the flags of every record are membership of its id in the ledger
FlagsFollow(newsletters, ledger) ==
    \A k \in 1..Len(newsletters) :
        /\ newsletters[k].processed
              <=> newsletters[k].id \in Range(ledger.processed_ids)
        /\ newsletters[k].unsubscribed
              <=> newsletters[k].id \in Range(ledger.unsubscribed)

\* C21: the records a listing returns have their flags equal to membership in
\* the ledger file at the listing, and the records a scan job stores have
\* their flags equal to membership in the ledger file at the scan.
C21_FlagsFollowLedger ==
    [][ /\ GetNewsletters => FlagsFollow(scan_status'.newsletters, file)
        /\ \A t \in ScanThreads :
              (scanJob[t].pc = "scan" /\ scanJob'[t].pc = "disconnect")
                  => FlagsFollow(scan_status'.newsletters, file) ]_vars

\* C22: while a scan thread is started and not finished scanning is true, and
\* while an unsubscribe thread is started and not finished running is true.
C22_GuardReflectsActivity ==
    /\ (\E t \in ScanThreads : scanJob[t].pc # "idle") => scan_status.scanning
    /\ (\E t \in UnsubThreads : unsubJob[t].pc # "idle") => unsubscribe_status.running

\* C23: current is between 0 and total, there are at most total + 1 result
\* entries; and when a thread is through its loop without an exception,
\* current is total and the entries are those of its newsletters, in order.
C23_CountersConsistent ==
    /\ unsubscribe_status.current >= 0
    /\ unsubscribe_status.current <= unsubscribe_status.total
    /\ Len(unsubscribe_status.results) <= unsubscribe_status.total + 1
    /\ \A t \in UnsubThreads :
          (unsubJob[t].pc = "item" /\ unsubJob[t].i > Len(unsubJob[t].newsletters)) =>
              /\ unsubscribe_status.current = unsubscribe_status.total
              /\ unsubscribe_status.total = Len(unsubJob[t].newsletters)
              /\ Len(unsubscribe_status.results) = Len(unsubJob[t].newsletters)
              /\ \A k \in 1..Len(unsubJob[t].newsletters) :
                    unsubscribe_status.results[k].newsletter
                        = unsubJob[t].newsletters[k].from

\* C24: a scan job calls scan_all and disconnect on the MailBot it connected,
\* so that the scan of the account, which has newsletters, does not come back
\* empty; and an unsubscribe job calls unsubscribe for every item on its one
\* MailBot, whose ledger therefore has the ids of the job's items before.
C24_JobKeepsItsMailBot ==
    [][ /\ \A t \in ScanThreads :
              /\ (scanJob[t].pc = "scan" /\ scanJob'[t].pc = "disconnect") =>
                    /\ heap[bot].connection = "connected"
                    /\ scan_status'.newsletters # <<>>
              /\ (scanJob[t].pc = "disconnect" /\ scanJob'[t].pc = "idle") =>
                    heap[bot].connection = "connected"
        /\ \A t \in UnsubThreads :
              (unsubJob[t].pc = "item" /\ unsubJob'[t].pc = "mark") =>
                  \A m \in 1..(unsubJob[t].i - 1) :
                      unsubJob[t].newsletters[m].id
                          \in Range(heap[bot].processed.processed_ids) ]_vars

====
